---- MODULE Spec2Model ----
(***************************************************************************)
(* The ask route of memfree: POST admits a request, opens the response     *)
(* stream and runs ask(), which replays a cached result or runs the        *)
(* search / answer / image backfill / related-questions pipeline and       *)
(* writes the result to the cache.                                         *)
(*                                                                         *)
(* One action is one turn of the JavaScript event loop: the code between   *)
(* two awaits runs atomically, and every capability call (cache, search,   *)
(* chat stream, usage counter) returns in a later turn.                    *)
(***************************************************************************)
EXTENDS Integers, Sequences, FiniteSets, TLC

VARIABLES
    ask,          \* per request slot: the locals of POST and ask()
    cache,        \* ResultCache: key -> CachedResult
    cacheVer,     \* history: number of writes applied under each key
    pendingSet,   \* setCache calls in flight (fire-and-forget)
    pendingInc,   \* incSearchCount calls in flight (fire-and-forget)
    usage,        \* usage counter of the one known user
    rlCount,      \* requests the rate limiter has counted for the caller's ip
    invocations,  \* number of POSTs so far
    lastHit,      \* history: key -> the latest finished replay of a cache hit
    serperCall    \* one call of SerperSearch.search taken on its own

vars == <<ask, cache, cacheVer, pendingSet, pendingInc, usage, rlCount,
          invocations, lastHit, serperCall>>

----------------------------------------------------------------------------
(* Bounds *)

MaxAnswerTokens == 2
MaxRelatedTokens == 1
MaxInvocations == 4

(* Program constants *)

RateLimit == 3
IMAGE_LIMIT == 8

Slots == {"r1", "r2"}

null == "<null>"

----------------------------------------------------------------------------
(* Request inputs *)

ALL == "all"
IMAGES == "images"
NEWS == "news"

GPT_4o_MIMI == "gpt-4o-mini"
Models == {GPT_4o_MIMI, "no-such-model"}
validModel(model) == model = GPT_4o_MIMI

Users == {"u1"}
Sessions == {""} \cup Users

Queries == {<<"q">>, <<" ", "q", " ">>}
Categories == {ALL, NEWS, IMAGES}

RECURSIVE TrimStart(_)
TrimStart(q) ==
    IF q # <<>> /\ Head(q) = " " THEN TrimStart(Tail(q)) ELSE q

RECURSIVE TrimEnd(_)
TrimEnd(q) ==
    IF q # <<>> /\ q[Len(q)] = " " THEN TrimEnd(SubSeq(q, 1, Len(q) - 1)) ELSE q

trim(q) == TrimEnd(TrimStart(q))

CacheKey(model, source, query) == <<model>> \o <<source>> \o query

----------------------------------------------------------------------------
(* Search fixtures *)

Text(c) == [title |-> "t", url |-> "u", content |-> c]
Image(scheme, id) == [title |-> "t", url |-> "u", image |-> <<scheme, id>>]

EmptyResult == [texts |-> <<>>, images |-> <<>>]

VectorResults ==
    { EmptyResult,
      [texts |-> <<Text("v1"), Text("v2")>>, images |-> <<Image("https", "v")>>] }

(* The body of an upstream response: the entries of each field, and the   *)
(* fields whose value is not an array, so that .map on them throws         *)
NoJson == [knowledgeGraph |-> <<>>, answerBox |-> <<>>, images |-> <<>>,
           organic |-> <<>>, news |-> <<>>, malformed |-> {}]

Thrown == [status |-> "throw", json |-> NoJson]
NotOk == [status |-> "notok", json |-> NoJson]
Ok(json) == [status |-> "ok", json |-> json]

HttpsRun(n) == [i \in 1..n |-> Image("https", "s")]

UpstreamResponses(category) ==
    IF category = IMAGES
    THEN { Thrown,
           Ok([NoJson EXCEPT !.images =
                  <<Image("https", "a"), Image("http", "b"), Image("https", "c")>>]),
           Ok([NoJson EXCEPT !.images =
                  <<Image("http", "b")>> \o HttpsRun(IMAGE_LIMIT + 1)]) }
    ELSE IF category = NEWS
    THEN { NotOk,
           Ok([NoJson EXCEPT !.news = <<Text("n1"), Text("n2")>>]) }
    ELSE { Thrown,
           Ok([NoJson EXCEPT !.knowledgeGraph = <<Text("k1")>>,
                             !.organic = <<Text("w1")>>]),
           Ok([NoJson EXCEPT !.organic = <<Text("w1")>>,
                             !.images = <<Image("https", "w")>>]),
           Ok([NoJson EXCEPT !.images = <<Image("http", "x")>>]) }

(* the try block without the check of response.ok *)
SearchBodyNoStatusCheck(response) ==
    LET json == response.json
        t2 == json.knowledgeGraph \o json.answerBox
    IN IF response.status \in {"throw", "timeout", "badjson"}
       THEN [threw |-> TRUE, texts |-> <<>>, images |-> <<>>]
       ELSE IF "images" \in json.malformed
       THEN [threw |-> TRUE, texts |-> t2, images |-> <<>>]
       ELSE IF "organic" \in json.malformed
       THEN [threw |-> TRUE, texts |-> t2, images |-> json.images]
       ELSE IF "news" \in json.malformed
       THEN [threw |-> TRUE, texts |-> t2 \o json.organic, images |-> json.images]
       ELSE [threw |-> FALSE, texts |-> t2 \o json.organic \o json.news,
             images |-> json.images]

(* lines 40-109, the try block: how far it got, and what texts and images  *)
(* hold when it returns or throws.  fetchWithTimeout throws or times out,  *)
(* the status is not ok, response.json() throws, or a field is parsed in   *)
(* the order knowledgeGraph, answerBox, images, organic, news.             *)
SearchBody(response) ==
    LET json == response.json
        t2 == json.knowledgeGraph \o json.answerBox
    IN IF response.status \in {"throw", "timeout", "notok", "badjson"}
       THEN [threw |-> TRUE, texts |-> <<>>, images |-> <<>>]
       ELSE IF "images" \in json.malformed
       THEN [threw |-> TRUE, texts |-> t2, images |-> <<>>]
       ELSE IF "organic" \in json.malformed
       THEN [threw |-> TRUE, texts |-> t2, images |-> json.images]
       ELSE IF "news" \in json.malformed
       THEN [threw |-> TRUE, texts |-> t2 \o json.organic, images |-> json.images]
       ELSE [threw |-> FALSE, texts |-> t2 \o json.organic \o json.news,
             images |-> json.images]

(* lines 109 and 112: the try block and the catch block return the same    *)
(* { texts, images }                                                       *)
SerperSearch(response) ==
    [texts |-> SearchBody(response).texts, images |-> SearchBody(response).images]

ImageFilterUncapped(imgs) ==
    SelectSeq(imgs, LAMBDA img : Len(img.image) > 0 /\ img.image[1] = "https")

(* lines 190-194 *)
ImageFilter(imgs) ==
    LET secure == SelectSeq(imgs, LAMBDA img : Len(img.image) > 0 /\ img.image[1] = "https")
    IN SubSeq(secure, 1, IF Len(secure) < IMAGE_LIMIT THEN Len(secure) ELSE IMAGE_LIMIT)

----------------------------------------------------------------------------
(* Chat fixtures: the tokens a chat stream delivers, in order *)

AnswerTokens == <<"Hi", " there", "!", "?">>
RelatedTokens == <<"Q1?", "Q2?", "Q3?">>
FinalPayloads == {null, ""}
FallbackMessage == "Some errors seem to have occurred, plase retry"

JsConcat(str, msg) == str \o (IF msg = null THEN "null" ELSE msg)

----------------------------------------------------------------------------
(* Prompts.  A prompt is kept as its parts: the template, the citation     *)
(* block as the entries that are joined by blank lines, and the query that *)
(* follows the formatted template.                                         *)

ACADEMIC == "academic"

AcademicPrompet == "AcademicPrompet"
NewsPrompt == "NewsPrompt"
DeepQueryPrompt == "DeepQueryPrompt"
MoreQuestionsPrompt == "MoreQuestionsPrompt"

(* lines 296-310 *)
choosePrompt(source, type) ==
    IF source = ACADEMIC THEN AcademicPrompet
    ELSE IF source = NEWS THEN NewsPrompt
    ELSE IF type = "answer" THEN DeepQueryPrompt
    ELSE IF type = "related" THEN MoreQuestionsPrompt
    ELSE DeepQueryPrompt

(* the entries are numbered by the index of map itself *)
paramsFormatterZeroBased(source, query, mode, contexts, type) ==
    [prompt |-> choosePrompt(source, type),
     context |-> [k \in 1..Len(contexts) |->
                     [citation |-> k - 1, content |-> contexts[k].content]],
     query |-> query]

(* lines 312-334: the element at index k - 1 of map is contexts[k] here,   *)
(* and its entry is `[citation:${index + 1}] ${item.content}`              *)
paramsFormatter(source, query, mode, contexts, type) ==
    [prompt |-> choosePrompt(source, type),
     context |-> [k \in 1..Len(contexts) |->
                     [citation |-> (k - 1) + 1, content |-> contexts[k].content]],
     query |-> query]

NoPrompt == [prompt |-> "", context |-> <<>>, query |-> <<>>]

----------------------------------------------------------------------------
(* The locals of one request *)

NoCachedResult == [webs |-> <<>>, images |-> <<>>, answer |-> "", related |-> ""]

IdleSlot ==
    [pc |-> "idle", id |-> 0,
     rawQuery |-> <<>>, query |-> <<>>, useCache |-> FALSE, userId |-> "", model |-> "", source |-> "",
     vecDone |-> FALSE, webDone |-> FALSE,
     vectorResponse |-> EmptyResult, webResponse |-> EmptyResult,
     texts |-> <<>>, images |-> <<>>, fetchedImages |-> <<>>,
     fullAnswer |-> "", fullRelated |-> "",
     ansState |-> "none", ansTokens |-> <<>>, ansFailed |-> FALSE,
     imgState |-> "none",
     relTokens |-> <<>>, relFailed |-> FALSE,
     hit |-> FALSE, hitVer |-> 0, cachedResult |-> NoCachedResult, order |-> <<>>,
     answerPrompt |-> NoPrompt, relatedPrompt |-> NoPrompt,
     emitted |-> <<>>, calls |-> <<>>, cancelled |-> FALSE]

Done == [done |-> TRUE]

Emit(s, event) == [s EXCEPT !.emitted = Append(@, event)]

Call(s, name) == [s EXCEPT !.calls = Append(@, name)]

streamResponse(s, data) == [s EXCEPT !.emitted = @ \o data]

PromiseRace(a, b) == a \/ b

(* Promise.all of two promises resolves when both have *)
PromiseAll(a, b) == a /\ b

StartStreaming(s) ==
    LET s1 == streamResponse(s, <<[sources |-> s.texts], [images |-> s.images]>>)
        s2 == [Call(s1, "answerChat") EXCEPT
                  !.ansState = "streaming",
                  !.answerPrompt =
                      paramsFormatter(s.source, s.query, "simple", s.texts, "answer")]
    IN IF Len(s.images) = 0
       THEN [Call(s2, "imageSearch") EXCEPT !.imgState = "pending", !.pc = "streaming"]
       ELSE [s2 EXCEPT !.imgState = "settled", !.fetchedImages = s.images,
                       !.pc = "streaming"]

NeedsFallbackNoImages(s) == Len(s.images) = 0

(* line 164 *)
NeedsFallback(s) == Len(s.texts) = 0

AfterGather(s) ==
    IF NeedsFallback(s)
    THEN [Call(s, "fallback") EXCEPT !.pc = "fallback"]
    ELSE StartStreaming(s)

BeginSearch(s) ==
    IF s.userId # "" /\ s.source = ALL
    THEN [Call(Call(s, "vector"), "web") EXCEPT !.pc = "fanout"]
    ELSE AfterGather(s)

(* the cache is read whatever useCache says *)
AskStartAlwaysReads(s) ==
    [Call(s, "getCache") EXCEPT !.query = trim(s.query), !.pc = "getCache"]

(* lines 116-119 *)
AskStart(s) ==
    IF s.useCache
    THEN [Call(s, "getCache") EXCEPT !.query = trim(s.query), !.pc = "getCache"]
    ELSE BeginSearch(s)

ConcatWebFirst(vectorResponse, webResponse) ==
    [texts |-> webResponse.texts \o vectorResponse.texts,
     images |-> webResponse.images]

(* lines 156-161 *)
Concat(vectorResponse, webResponse) ==
    [texts |-> vectorResponse.texts \o webResponse.texts,
     images |-> webResponse.images]

Replay(cachedResult) ==
    <<[sources |-> cachedResult.webs], [images |-> cachedResult.images],
      [answer |-> cachedResult.answer], [related |-> cachedResult.related]>>

Assemble(s) ==
    [webs |-> s.texts, images |-> s.images,
     answer |-> s.fullAnswer, related |-> s.fullRelated]

WriteKey(s) == CacheKey(s.model, s.source, s.query)

FireIncAlways(s) == Call(s, "incSearchCount")

FireIncNever(s) == s

(* lines 128-136 and 222-230 *)
FireInc(s) == IF s.userId # "" THEN Call(s, "incSearchCount") ELSE s

IncAttempt(s) == IF s.userId # "" THEN {[user |-> s.userId, id |-> s.id]} ELSE {}

----------------------------------------------------------------------------
(* Actions *)

Set(r, s) == ask' = [ask EXCEPT ![r] = s]

Bodies == [query : Queries, useCache : BOOLEAN, model : Models, source : Categories]

LookupKey(s) == CacheKey(s.model, s.source, s.query)

(* history: the replay of a finished cache hit, kept when its slot is reused *)
Record(log, s) ==
    IF s.pc = "returned" /\ s.hit
    THEN [k \in DOMAIN log \cup {LookupKey(s)} |->
             IF k = LookupKey(s) THEN [events |-> s.emitted, ver |-> s.hitVer]
             ELSE log[k]]
    ELSE log

LimitedAnyCaller(session, count) == count >= RateLimit

(* lines 43-58: only a caller without a session is counted by the limiter *)
Limited(session, count) == session = "" /\ count >= RateLimit

(* POST, up to the first await of ask() *)
POST(r, session, body, max) ==
    /\ ask[r].pc \in {"idle", "returned", "rejected429", "rejected400"}
    /\ invocations < max
    /\ invocations' = invocations + 1
    /\ LET limited == Limited(session, rlCount)
           s0 == [IdleSlot EXCEPT !.id = invocations + 1, !.userId = session,
                                  !.rawQuery = body.query,
                                  !.query = body.query, !.useCache = body.useCache,
                                  !.model = body.model, !.source = body.source]
       IN /\ rlCount' = IF session = "" /\ ~limited THEN rlCount + 1 ELSE rlCount
          /\ IF limited
             THEN Set(r, [s0 EXCEPT !.pc = "rejected429"])
             ELSE IF ~validModel(body.model)
                  THEN Set(r, [s0 EXCEPT !.pc = "rejected400"])
                  ELSE Set(r, AskStart(s0))
    /\ lastHit' = Record(lastHit, ask[r])
    /\ UNCHANGED <<cache, cacheVer, pendingSet, pendingInc, usage, serperCall>>

(* the replay without the return of line 137 *)
CacheHitFallsThrough(r) ==
    LET s == ask[r]
        key == LookupKey(s)
    IN /\ s.pc = "getCache"
       /\ key \in DOMAIN cache
       /\ Set(r, BeginSearch(
                    [FireInc(Emit(streamResponse(s, Replay(cache[key])), Done)) EXCEPT
                        !.hit = TRUE, !.hitVer = cacheVer[key],
                        !.cachedResult = cache[key]]))
       /\ pendingInc' = pendingInc \cup IncAttempt(s)
       /\ UNCHANGED <<cache, cacheVer, pendingSet, usage, rlCount, invocations, lastHit, serperCall>>

(* getCache returned a CachedResult *)
CacheHit(r) ==
    LET s == ask[r]
        key == LookupKey(s)
    IN /\ s.pc = "getCache"
       /\ key \in DOMAIN cache
       /\ ~s.cancelled
       /\ Set(r, [FireInc(Emit(streamResponse(s, Replay(cache[key])), Done)) EXCEPT
                     !.pc = "returned", !.hit = TRUE, !.hitVer = cacheVer[key],
                     !.cachedResult = cache[key]])
       /\ pendingInc' = pendingInc \cup IncAttempt(s)
       /\ UNCHANGED <<cache, cacheVer, pendingSet, usage, rlCount, invocations, lastHit, serperCall>>

(* getCache returned nothing *)
CacheMiss(r) ==
    LET s == ask[r]
    IN /\ s.pc = "getCache"
       /\ LookupKey(s) \notin DOMAIN cache
       /\ Set(r, BeginSearch(s))
       /\ UNCHANGED <<cache, cacheVer, pendingSet, pendingInc, usage, rlCount,
                      invocations, lastHit, serperCall>>

VectorSearchReturn(r, result) ==
    LET s == ask[r]
    IN /\ s.pc = "fanout"
       /\ ~s.vecDone
       /\ Set(r, [s EXCEPT !.vecDone = TRUE, !.vectorResponse = result,
                           !.order = Append(@, "vector")])
       /\ UNCHANGED <<cache, cacheVer, pendingSet, pendingInc, usage, rlCount,
                      invocations, lastHit, serperCall>>

WebSearchReturn(r, response) ==
    LET s == ask[r]
    IN /\ s.pc = "fanout"
       /\ ~s.webDone
       /\ Set(r, [s EXCEPT !.webDone = TRUE, !.webResponse = SerperSearch(response),
                           !.order = Append(@, "web")])
       /\ UNCHANGED <<cache, cacheVer, pendingSet, pendingInc, usage, rlCount,
                      invocations, lastHit, serperCall>>

(* Promise.all of the two searches resolved *)
FanoutJoin(r) ==
    LET s == ask[r]
        both == Concat(s.vectorResponse, s.webResponse)
        joined == [s EXCEPT !.texts = both.texts, !.images = both.images]
    IN /\ s.pc = "fanout"
       /\ PromiseAll(s.vecDone, s.webDone)
       /\ ~s.cancelled \/ NeedsFallback(joined)
       /\ Set(r, AfterGather(joined))
       /\ UNCHANGED <<cache, cacheVer, pendingSet, pendingInc, usage, rlCount,
                      invocations, lastHit, serperCall>>

FallbackReturn(r, response) ==
    LET s == ask[r]
        result == SerperSearch(response)
    IN /\ s.pc = "fallback"
       /\ ~s.cancelled
       /\ Set(r, StartStreaming([s EXCEPT !.texts = result.texts,
                                          !.images = result.images]))
       /\ UNCHANGED <<cache, cacheVer, pendingSet, pendingInc, usage, rlCount,
                      invocations, lastHit, serperCall>>

OnAnswer(s, msg) == Emit([s EXCEPT !.fullAnswer = JsConcat(@, msg)], [answer |-> msg])

AnswerToken(r, max) ==
    LET s == ask[r]
        n == Len(s.ansTokens)
    IN /\ s.ansState = "streaming"
       /\ n < max
       /\ ~s.cancelled
       /\ Set(r, [OnAnswer(s, AnswerTokens[n + 1]) EXCEPT
                     !.ansTokens = Append(@, AnswerTokens[n + 1])])
       /\ UNCHANGED <<cache, cacheVer, pendingSet, pendingInc, usage, rlCount,
                      invocations, lastHit, serperCall>>

AnswerDone(r, payload) ==
    LET s == ask[r]
    IN /\ s.ansState = "streaming"
       /\ ~s.cancelled
       /\ Set(r, [OnAnswer(s, payload) EXCEPT !.ansState = "settled",
                                              !.order = Append(@, "answer")])
       /\ UNCHANGED <<cache, cacheVer, pendingSet, pendingInc, usage, rlCount,
                      invocations, lastHit, serperCall>>

(* the failure escapes getLLMAnswer: Promise.all rejects and ask() throws *)
AnswerFailUncaught(r) ==
    LET s == ask[r]
    IN /\ s.ansState = "streaming"
       /\ Set(r, [s EXCEPT !.ansState = "rejected", !.ansFailed = TRUE, !.pc = "threw"])
       /\ UNCHANGED <<cache, cacheVer, pendingSet, pendingInc, usage, rlCount,
                      invocations, lastHit, serperCall>>

(* the callback honours the done flag that the catch block passes *)
AnswerFailCloses(r) ==
    LET s == ask[r]
    IN /\ s.ansState = "streaming"
       /\ Set(r, [Emit(OnAnswer(s, FallbackMessage), Done) EXCEPT
                     !.ansState = "settled", !.ansFailed = TRUE,
                     !.order = Append(@, "answer")])
       /\ UNCHANGED <<cache, cacheVer, pendingSet, pendingInc, usage, rlCount,
                      invocations, lastHit, serperCall>>

(* the catch block only logs *)
AnswerFailSilent(r) ==
    LET s == ask[r]
    IN /\ s.ansState = "streaming"
       /\ ~s.cancelled
       /\ Set(r, [s EXCEPT !.ansState = "settled", !.ansFailed = TRUE,
                           !.order = Append(@, "answer")])
       /\ UNCHANGED <<cache, cacheVer, pendingSet, pendingInc, usage, rlCount,
                      invocations, lastHit, serperCall>>

(* chatStream threw: the catch block of getLLMAnswer, lines 270-273 *)
AnswerFail(r) ==
    LET s == ask[r]
    IN /\ s.ansState = "streaming"
       /\ ~s.cancelled
       /\ Set(r, [OnAnswer(s, FallbackMessage) EXCEPT !.ansState = "settled",
                                                      !.ansFailed = TRUE,
                                                      !.order = Append(@, "answer")])
       /\ UNCHANGED <<cache, cacheVer, pendingSet, pendingInc, usage, rlCount,
                      invocations, lastHit, serperCall>>

ImageSearchReturn(r, response) ==
    LET s == ask[r]
    IN /\ s.imgState = "pending"
       /\ Set(r, [s EXCEPT !.imgState = "settled", !.order = Append(@, "image"),
                           !.fetchedImages = ImageFilter(SerperSearch(response).images)])
       /\ UNCHANGED <<cache, cacheVer, pendingSet, pendingInc, usage, rlCount,
                      invocations, lastHit, serperCall>>

Backfill(s) ==
    IF Len(s.images) = 0
    THEN streamResponse([s EXCEPT !.images = s.fetchedImages],
                        <<[images |-> s.fetchedImages]>>)
    ELSE s

(* Promise.all of the answer stream and the image fetch resolved *)
StreamJoin(r) ==
    LET s == ask[r]
    IN /\ s.pc = "streaming"
       /\ PromiseAll(s.ansState = "settled", s.imgState = "settled")
       /\ ~s.cancelled \/ Len(s.images) # 0
       /\ Set(r, [Call(Backfill(s), "relatedChat") EXCEPT
                     !.pc = "related",
                     !.relatedPrompt =
                         paramsFormatter(ALL, s.query, "simple", s.texts, "related")])
       /\ UNCHANGED <<cache, cacheVer, pendingSet, pendingInc, usage, rlCount,
                      invocations, lastHit, serperCall>>

OnRelated(s, msg) == Emit([s EXCEPT !.fullRelated = JsConcat(@, msg)], [related |-> msg])

RelatedToken(r, max) ==
    LET s == ask[r]
        n == Len(s.relTokens)
    IN /\ s.pc = "related"
       /\ n < max
       /\ ~s.cancelled
       /\ Set(r, [OnRelated(s, RelatedTokens[n + 1]) EXCEPT
                     !.relTokens = Append(@, RelatedTokens[n + 1])])
       /\ UNCHANGED <<cache, cacheVer, pendingSet, pendingInc, usage, rlCount,
                      invocations, lastHit, serperCall>>

(* lines 215-235: assemble, fire the usage increment and the cache write, done *)
Finish(r, s) ==
    /\ Set(r, [Emit(s, Done) EXCEPT
                  !.pc = "returned", !.cachedResult = Assemble(s),
                  !.calls = Append(FireInc(s).calls, "setCache")])
    /\ pendingInc' = pendingInc \cup IncAttempt(s)
    /\ pendingSet' = pendingSet \cup
                         {[key |-> WriteKey(s), value |-> Assemble(s), id |-> s.id]}
    /\ UNCHANGED <<cache, cacheVer, usage, rlCount, invocations, lastHit, serperCall>>

RelatedDone(r, payload) ==
    /\ ask[r].pc = "related"
    /\ ~ask[r].cancelled
    /\ Finish(r, OnRelated(ask[r], payload))

RelatedFail(r) ==
    /\ ask[r].pc = "related"
    /\ ~ask[r].cancelled
    /\ Finish(r, [ask[r] EXCEPT !.relFailed = TRUE])

(* the cache store settles an in-flight setCache *)
SetCacheApply(p) ==
    /\ p \in pendingSet
    /\ pendingSet' = pendingSet \ {p}
    /\ cache' = [k \in DOMAIN cache \cup {p.key} |->
                    IF k = p.key THEN p.value ELSE cache[k]]
    /\ cacheVer' = [k \in DOMAIN cacheVer \cup {p.key} |->
                       IF k = p.key
                       THEN (IF k \in DOMAIN cacheVer THEN cacheVer[k] + 1 ELSE 1)
                       ELSE cacheVer[k]]
    /\ UNCHANGED <<ask, pendingInc, usage, rlCount, invocations, lastHit, serperCall>>

SetCacheFail(p) ==
    /\ p \in pendingSet
    /\ pendingSet' = pendingSet \ {p}
    /\ UNCHANGED <<ask, cache, cacheVer, pendingInc, usage, rlCount, invocations, lastHit, serperCall>>

IncApply(p) ==
    /\ p \in pendingInc
    /\ pendingInc' = pendingInc \ {p}
    /\ usage' = usage + 1
    /\ UNCHANGED <<ask, cache, cacheVer, pendingSet, rlCount, invocations, lastHit, serperCall>>

IncFail(p) ==
    /\ p \in pendingInc
    /\ pendingInc' = pendingInc \ {p}
    /\ UNCHANGED <<ask, cache, cacheVer, pendingSet, usage, rlCount, invocations, lastHit, serperCall>>

----------------------------------------------------------------------------
(* One call of SerperSearch.search, as any caller sees it *)

NoCall == [pc |-> "idle", response |-> Thrown, result |-> EmptyResult]

SerperJsons ==
    [knowledgeGraph : {<<>>, <<Text("k1")>>}, answerBox : {<<>>, <<Text("a1")>>},
     images : {<<>>, <<Image("https", "i")>>}, organic : {<<>>, <<Text("w1")>>},
     news : {<<>>, <<Text("n1")>>}, malformed : SUBSET {"images", "organic", "news"}]

(* what the upstream may do: no response at all, an error status with any  *)
(* body, an unparsable body, or an ok status with any body                 *)
SerperResponses ==
    {[status |-> st, json |-> NoJson] : st \in {"throw", "timeout", "badjson"}}
    \cup {[status |-> st, json |-> json] : st \in {"notok", "ok"}, json \in SerperJsons}

SearchCall(response) ==
    /\ serperCall.pc = "idle"
    /\ serperCall' = [pc |-> "called", response |-> response, result |-> EmptyResult]
    /\ UNCHANGED <<ask, cache, cacheVer, pendingSet, pendingInc, usage, rlCount,
                   invocations, lastHit>>

SearchReturn ==
    /\ serperCall.pc = "called"
    /\ serperCall' = [serperCall EXCEPT !.pc = "returned",
                                        !.result = SerperSearch(serperCall.response)]
    /\ UNCHANGED <<ask, cache, cacheVer, pendingSet, pendingInc, usage, rlCount,
                   invocations, lastHit>>

----------------------------------------------------------------------------
(* Cancellation.  The caller cancels the ReadableStream of POST; cancel()   *)
(* (lines 91-93) only logs.  A cancelled stream is closed, and on a closed *)
(* stream controller.enqueue and controller.close throw a TypeError, so    *)
(* the emitter callback of lines 78-85 throws into its caller.             *)

Cancel(r) ==
    LET s == ask[r]
    IN /\ s.pc \in {"getCache", "fanout", "fallback", "streaming", "related"}
       /\ ~s.cancelled
       /\ Set(r, [s EXCEPT !.cancelled = TRUE])
       /\ UNCHANGED <<cache, cacheVer, pendingSet, pendingInc, usage, rlCount,
                      invocations, lastHit, serperCall>>

(* an exception leaves ask(): the promise of start() rejects *)
Throw(s) == [s EXCEPT !.pc = "threw"]

(* line 121: the first onStream of the replay throws, before line 128 *)
CacheHitCancelled(r) ==
    LET s == ask[r]
        key == LookupKey(s)
    IN /\ s.pc = "getCache"
       /\ key \in DOMAIN cache
       /\ s.cancelled
       /\ Set(r, Throw([s EXCEPT !.hit = TRUE, !.hitVer = cacheVer[key],
                                  !.cachedResult = cache[key]]))
       /\ UNCHANGED <<cache, cacheVer, pendingSet, pendingInc, usage, rlCount,
                      invocations, lastHit, serperCall>>

(* line 169 after the fan-out gathered texts *)
FanoutJoinCancelled(r) ==
    LET s == ask[r]
        both == Concat(s.vectorResponse, s.webResponse)
        joined == [s EXCEPT !.texts = both.texts, !.images = both.images]
    IN /\ s.pc = "fanout"
       /\ PromiseAll(s.vecDone, s.webDone)
       /\ s.cancelled /\ ~NeedsFallback(joined)
       /\ Set(r, Throw(joined))
       /\ UNCHANGED <<cache, cacheVer, pendingSet, pendingInc, usage, rlCount,
                      invocations, lastHit, serperCall>>

(* line 169 after the fallback search *)
FallbackReturnCancelled(r, response) ==
    LET s == ask[r]
        result == SerperSearch(response)
    IN /\ s.pc = "fallback"
       /\ s.cancelled
       /\ Set(r, Throw([s EXCEPT !.texts = result.texts, !.images = result.images]))
       /\ UNCHANGED <<cache, cacheVer, pendingSet, pendingInc, usage, rlCount,
                      invocations, lastHit, serperCall>>

(* lines 178-181 and 270-273: the callback appends msg and throws out of   *)
(* chatStream; the catch block of getLLMAnswer calls the callback again,   *)
(* which appends the fallback message and throws out of getLLMAnswer, so   *)
(* the Promise.all of line 198 rejects.  msg is a token or the final       *)
(* payload.                                                                *)
AnswerCallbackCancelled(r, msg) ==
    LET s == ask[r]
    IN /\ s.pc = "streaming"
       /\ s.ansState = "streaming"
       /\ s.cancelled
       /\ Set(r, Throw([s EXCEPT
                     !.fullAnswer = JsConcat(JsConcat(@, msg), FallbackMessage),
                     !.ansState = "rejected", !.ansFailed = TRUE]))
       /\ UNCHANGED <<cache, cacheVer, pendingSet, pendingInc, usage, rlCount,
                      invocations, lastHit, serperCall>>

(* lines 270-273: chatStream threw, and the callback of the catch block    *)
(* throws out of getLLMAnswer                                              *)
AnswerFailCancelled(r) ==
    LET s == ask[r]
    IN /\ s.pc = "streaming"
       /\ s.ansState = "streaming"
       /\ s.cancelled
       /\ Set(r, Throw([s EXCEPT !.fullAnswer = JsConcat(@, FallbackMessage),
                                  !.ansState = "rejected", !.ansFailed = TRUE]))
       /\ UNCHANGED <<cache, cacheVer, pendingSet, pendingInc, usage, rlCount,
                      invocations, lastHit, serperCall>>

(* line 205: the backfill event throws *)
StreamJoinCancelled(r) ==
    LET s == ask[r]
    IN /\ s.pc = "streaming"
       /\ PromiseAll(s.ansState = "settled", s.imgState = "settled")
       /\ s.cancelled /\ Len(s.images) = 0
       /\ Set(r, Throw([s EXCEPT !.images = s.fetchedImages]))
       /\ UNCHANGED <<cache, cacheVer, pendingSet, pendingInc, usage, rlCount,
                      invocations, lastHit, serperCall>>

(* lines 215-235 on a cancelled stream: the usage increment and the cache  *)
(* write are fired, then controller.close() throws at line 235             *)
FinishCancelled(r, s) ==
    /\ Set(r, Throw([s EXCEPT !.cachedResult = Assemble(s),
                              !.calls = Append(FireInc(s).calls, "setCache")]))
    /\ pendingInc' = pendingInc \cup IncAttempt(s)
    /\ pendingSet' = pendingSet \cup
                         {[key |-> WriteKey(s), value |-> Assemble(s), id |-> s.id]}
    /\ UNCHANGED <<cache, cacheVer, usage, rlCount, invocations, lastHit, serperCall>>

(* lines 210-213 and 290-293: the callback appends msg and throws out of   *)
(* chatStream; getRelatedQuestions catches it and returns                  *)
RelatedCallbackCancelled(r, msg) ==
    /\ ask[r].pc = "related"
    /\ ask[r].cancelled
    /\ FinishCancelled(r, [ask[r] EXCEPT !.fullRelated = JsConcat(@, msg),
                                         !.relFailed = TRUE])

RelatedFailCancelled(r) ==
    /\ ask[r].pc = "related"
    /\ ask[r].cancelled
    /\ FinishCancelled(r, [ask[r] EXCEPT !.relFailed = TRUE])

----------------------------------------------------------------------------
(* Specifications *)

(* What the callers and the capabilities may do: the request bodies, the  *)
(* results of the vector search, the upstream responses per category, the  *)
(* final payloads and the lengths of the chat streams.                     *)
Wide ==
    [sessions |-> Sessions, bodies |-> Bodies, vector |-> VectorResults,
     upstream |-> [c \in Categories |-> UpstreamResponses(c)],
     finals |-> FinalPayloads,
     maxAnswer |-> MaxAnswerTokens, maxRelated |-> MaxRelatedTokens,
     maxInvocations |-> 1]

Upstream(F, category) ==
    IF category \in DOMAIN F.upstream THEN F.upstream[category] ELSE {}

(* the capability calls of request r return *)
Returns(r, F) ==
    \/ CacheHit(r)
    \/ CacheMiss(r)
    \/ \E result \in F.vector : VectorSearchReturn(r, result)
    \/ \E response \in Upstream(F, ask[r].source) : WebSearchReturn(r, response)
    \/ FanoutJoin(r)
    \/ \E response \in Upstream(F, ask[r].source) : FallbackReturn(r, response)
    \/ AnswerToken(r, F.maxAnswer)
    \/ \E payload \in F.finals : AnswerDone(r, payload)
    \/ AnswerFail(r)
    \/ \E response \in Upstream(F, IMAGES) : ImageSearchReturn(r, response)
    \/ StreamJoin(r)
    \/ RelatedToken(r, F.maxRelated)
    \/ \E payload \in F.finals : RelatedDone(r, payload)
    \/ RelatedFail(r)

Pipeline(r, F) ==
    \/ \E session \in F.sessions, body \in F.bodies :
          POST(r, session, body, F.maxInvocations)
    \/ Returns(r, F)

Background ==
    \/ \E p \in pendingSet : SetCacheApply(p)
    \/ \E p \in pendingSet : SetCacheFail(p)
    \/ \E p \in pendingInc : IncApply(p)
    \/ \E p \in pendingInc : IncFail(p)

SeedKey == CacheKey(GPT_4o_MIMI, ALL, <<"q">>)
SeedEntry ==
    [webs |-> <<Text("w1")>>, images |-> <<Image("https", "w")>>,
     answer |-> "Hi there", related |-> "Q1?"]

Fresh ==
    /\ ask = [r \in Slots |-> IdleSlot]
    /\ pendingSet = {}
    /\ pendingInc = {}
    /\ usage = 0
    /\ invocations = 0
    /\ lastHit = <<>>
    /\ serperCall = NoCall

(* One request with everything the capabilities may answer; the cache and  *)
(* the rate limiter are stores that outlive the server, so the request may *)
(* find an entry a previous run wrote and a quota already used up.         *)
Init ==
    /\ Fresh
    /\ cache = (SeedKey :> SeedEntry)
    /\ cacheVer = [k \in DOMAIN cache |-> 1]
    /\ rlCount \in {0, RateLimit}

Next == Pipeline("r1", Wide) \/ Background

Spec == Init /\ [][Next]_vars

(* The same request for one query text, and every pending capability call *)
(* of the request eventually returns                                       *)
Live ==
    [Wide EXCEPT !.bodies = [query : {<<" ", "q", " ">>}, useCache : BOOLEAN,
                             model : Models, source : Categories]]

NextLive == Pipeline("r1", Live) \/ Background

LiveSpec == Init /\ [][NextLive]_vars /\ WF_vars(Returns("r1", Live))

(* Several requests of one signed-in user for the news on one query, one  *)
(* after another in each slot, from empty stores.  The capabilities do not *)
(* fail here: the search returns one fixed result, the answer stream ends  *)
(* after at most one token, and a cache write either is applied or stays   *)
(* in flight.                                                              *)
InitCache ==
    /\ Fresh
    /\ cache = <<>>
    /\ cacheVer = <<>>
    /\ rlCount = 0

CachedBodies ==
    [query : {<<"q">>}, useCache : BOOLEAN, model : {GPT_4o_MIMI}, source : {NEWS}]

CachedNews ==
    Ok([NoJson EXCEPT !.news = <<Text("n1")>>, !.images = <<Image("https", "n")>>])

NextCache ==
    \/ \E r \in Slots :
          \/ \E body \in CachedBodies : POST(r, "u1", body, MaxInvocations)
          \/ CacheHit(r)
          \/ CacheMiss(r)
          \/ FallbackReturn(r, CachedNews)
          \/ AnswerToken(r, 1)
          \/ AnswerDone(r, "")
          \/ StreamJoin(r)
          \/ RelatedDone(r, "")
    \/ \E p \in pendingSet : SetCacheApply(p)

SpecCache == InitCache /\ [][NextCache]_vars

(* Requests of an anonymous caller and of a signed-in user, one after     *)
(* another, from empty stores: the limiter counts the anonymous ones.  The *)
(* capabilities do not fail here.                                          *)
AdmitBodies ==
    [query : {<<"q">>}, useCache : BOOLEAN, model : Models, source : {NEWS}]

NextAdmit ==
    \/ \E session \in Sessions, body \in AdmitBodies :
          POST("r1", session, body, MaxInvocations)
    \/ CacheHit("r1")
    \/ CacheMiss("r1")
    \/ FallbackReturn("r1", CachedNews)
    \/ AnswerDone("r1", "")
    \/ StreamJoin("r1")
    \/ RelatedDone("r1", "")
    \/ \E p \in pendingSet : SetCacheApply(p)
    \/ \E p \in pendingInc : IncApply(p)

SpecAdmit == InitCache /\ [][NextAdmit]_vars

(* One request for one query text, which the caller may cancel at any     *)
(* await of ask()                                                          *)
Cancellable ==
    [Wide EXCEPT !.bodies = [query : {<<"q">>}, useCache : BOOLEAN,
                             model : {GPT_4o_MIMI}, source : {ALL, NEWS}]]

ReturnsCancelled(r, F) ==
    \/ CacheHitCancelled(r)
    \/ FanoutJoinCancelled(r)
    \/ \E response \in Upstream(F, ask[r].source) : FallbackReturnCancelled(r, response)
    \/ \E msg \in F.finals \cup {AnswerTokens[1]} : AnswerCallbackCancelled(r, msg)
    \/ AnswerFailCancelled(r)
    \/ StreamJoinCancelled(r)
    \/ \E msg \in F.finals \cup {RelatedTokens[1]} : RelatedCallbackCancelled(r, msg)
    \/ RelatedFailCancelled(r)

NextCancel ==
    \/ Pipeline("r1", Cancellable)
    \/ Cancel("r1")
    \/ ReturnsCancelled("r1", Cancellable)
    \/ Background

SpecCancel == Init /\ [][NextCancel]_vars

(* One call of SerperSearch.search for each thing the upstream may do *)
NextSerper ==
    \/ \E response \in SerperResponses : SearchCall(response)
    \/ SearchReturn

SpecSerper == InitCache /\ [][NextSerper]_vars

----------------------------------------------------------------------------
(* Properties *)

Kind(event) == CHOOSE k \in DOMAIN event : TRUE
Kinds(events) == [i \in 1..Len(events) |-> Kind(events[i])]
Range(seq) == {seq[i] : i \in 1..Len(seq)}
Count(seq, x) == Cardinality({i \in 1..Len(seq) : seq[i] = x})

(* C1: a request whose cache lookup hit has emitted exactly sources (the    *)
(* cached webs), images, answer, related and then done; it called nothing   *)
(* but getCache, plus incSearchCount if and only if userId is non-empty,    *)
(* and has no cache write in flight.                                        *)
C1_CacheHitReplay ==
    \A r \in Slots :
        LET s == ask[r]
        IN s.hit =>
            /\ s.emitted = <<[sources |-> s.cachedResult.webs],
                             [images |-> s.cachedResult.images],
                             [answer |-> s.cachedResult.answer],
                             [related |-> s.cachedResult.related], Done>>
            /\ s.calls = <<"getCache">>
                         \o (IF s.userId # "" THEN <<"incSearchCount">> ELSE <<>>)
            /\ \A p \in pendingSet : p.id # s.id

C1_Witness ==
    \E r \in Slots :
        /\ ask[r].hit
        /\ ask[r].userId = "u1"
        /\ ask[r].pc = "returned"
        /\ "incSearchCount" \in Range(ask[r].calls)

Rank(kind) ==
    CASE kind = "sources" -> 0
      [] kind = "answer" -> 1
      [] kind = "images" -> 2
      [] kind = "related" -> 3
      [] kind = "done" -> 4

MissShape(events) ==
    LET k == Kinds(events)
        n == Len(events)
    IN /\ n >= 1 => k[1] = "sources"
       /\ n >= 2 => k[2] = "images"
       /\ \A i \in 3..n : k[i] \in {"answer", "images", "related", "done"}
       /\ \A i, j \in 3..n : i < j => Rank(k[i]) <= Rank(k[j])
       /\ Cardinality({i \in 3..n : k[i] = "images"}) <= 1
       /\ Cardinality({i \in 3..n : k[i] = "done"}) <= 1

(* C2: on the miss path the events emitted so far are one sources event,   *)
(* one images event, then answer events, then at most one backfill images  *)
(* event, then related events, then done.                                  *)
C2_MissOrder ==
    \A r \in Slots : ~ask[r].hit => MissShape(ask[r].emitted)

(* the image search returned before the answer stream ended, and the run   *)
(* emitted answer tokens, the backfill and a related token                 *)
C2_Witness ==
    \E r \in Slots :
        LET s == ask[r]
        IN /\ s.pc = "returned"
           /\ ~s.hit
           /\ \E i, j \in 1..Len(s.order) :
                 i < j /\ s.order[i] = "image" /\ s.order[j] = "answer"
           /\ Len(s.ansTokens) = MaxAnswerTokens
           /\ Len(s.relTokens) > 0
           /\ Count(Kinds(s.emitted), "images") = 2

Opened(r) == ask[r].pc \notin {"idle", "rejected429", "rejected400"}
DoneEmitted(r) == Done \in Range(ask[r].emitted)

(* C3: once the stream of an admitted request is open, done is eventually  *)
(* emitted, whichever searches, chat streams, cache writes or usage        *)
(* increments fail.                                                        *)
C3_DoneEventually ==
    \A r \in Slots : Opened(r) ~> DoneEmitted(r)

C3_Witness ==
    \E r \in Slots :
        LET s == ask[r]
        IN /\ DoneEmitted(r)
           /\ s.ansFailed
           /\ s.relFailed
           /\ "imageSearch" \in Range(s.calls)
           /\ s.fetchedImages = <<>>
           /\ s.texts = <<>>

(* C4: done is emitted at most once and is the last event emitted          *)
C4_NothingAfterDone ==
    \A r \in Slots :
        \A i \in 1..Len(ask[r].emitted) :
            ask[r].emitted[i] = Done => i = Len(ask[r].emitted)

C4_Witness ==
    \E r \in Slots :
        LET s == ask[r]
        IN /\ s.pc = "returned"
           /\ ~s.hit
           /\ s.ansFailed
           /\ s.emitted[Len(s.emitted)] = Done
           /\ Count(s.emitted, Done) = 1

(* C5: a cache write is attempted only by a request whose answer           *)
(* generation and related-question generation both completed without       *)
(* failure.                                                                 *)
C5_CacheOnlyOnSuccess ==
    \A r \in Slots :
        "setCache" \in Range(ask[r].calls) => ~ask[r].ansFailed /\ ~ask[r].relFailed

Replayed(r) == ask[r].pc = "returned" /\ ask[r].hit

(* C6 as claimed: any two replays of cache hits under the same key are     *)
(* identical, whatever other requests ran between them.                    *)
C6_AllReplaysIdentical ==
    /\ \A r \in Slots :
          Replayed(r) /\ LookupKey(ask[r]) \in DOMAIN lastHit
              => ask[r].emitted = lastHit[LookupKey(ask[r])].events
    /\ \A r1, r2 \in Slots :
          Replayed(r1) /\ Replayed(r2) /\ LookupKey(ask[r1]) = LookupKey(ask[r2])
              => ask[r1].emitted = ask[r2].emitted

(* C6 as amended: two replays of cache hits under the same key, with no    *)
(* cache write applied under that key between the two lookups, are         *)
(* identical.                                                              *)
C6_ReplaysOfOneEntryIdentical ==
    /\ \A r \in Slots :
          /\ Replayed(r)
          /\ LookupKey(ask[r]) \in DOMAIN lastHit
          /\ lastHit[LookupKey(ask[r])].ver = ask[r].hitVer
          => ask[r].emitted = lastHit[LookupKey(ask[r])].events
    /\ \A r1, r2 \in Slots :
          /\ Replayed(r1)
          /\ Replayed(r2)
          /\ LookupKey(ask[r1]) = LookupKey(ask[r2])
          /\ ask[r1].hitVer = ask[r2].hitVer
          => ask[r1].emitted = ask[r2].emitted

(* a second replay of an entry that was written twice *)
C6_Witness ==
    \E r \in Slots :
        /\ Replayed(r)
        /\ LookupKey(ask[r]) \in DOMAIN lastHit
        /\ lastHit[LookupKey(ask[r])].ver = ask[r].hitVer
        /\ ask[r].hitVer = 2

LaterLookup(s) ==
    LookupKey(AskStart([IdleSlot EXCEPT !.rawQuery = s.rawQuery, !.query = s.rawQuery,
                                        !.useCache = TRUE, !.model = s.model,
                                        !.source = s.source]))

(* C7: the key of a cache write is the composite of model, category and    *)
(* the trimmed query: the key a later request with useCache set and the    *)
(* same model, category and query text looks up.                           *)
C7_WriteKeyIsLookupKey ==
    \A r \in Slots :
        LET s == ask[r]
        IN "setCache" \in Range(s.calls) =>
            /\ WriteKey(s) = CacheKey(s.model, s.source, trim(s.rawQuery))
            /\ WriteKey(s) = LaterLookup(s)

Fanned(s) == s.userId # "" /\ s.source = ALL

(* C8: with an identity and category ALL, when the two searches returned   *)
(* at least one text, the sources event carries the vector texts followed  *)
(* by the web texts, whichever search returned first.                      *)
C8_SourcesVectorFirst ==
    \A r \in Slots :
        LET s == ask[r]
            both == s.vectorResponse.texts \o s.webResponse.texts
        IN ~s.hit /\ Fanned(s) /\ s.vecDone /\ s.webDone /\ s.pc # "fanout"
           /\ Len(both) > 0
           => /\ Len(s.emitted) >= 1
              /\ s.emitted[1] = [sources |-> both]

C8_Witness ==
    \E r \in Slots :
        LET s == ask[r]
        IN /\ ~s.hit
           /\ Fanned(s)
           /\ Len(s.order) >= 2 /\ s.order[1] = "web" /\ s.order[2] = "vector"
           /\ Len(s.vectorResponse.texts) = 2
           /\ Len(s.webResponse.texts) = 2
           /\ Len(s.emitted) >= 1
           /\ Len(s.emitted[1].sources) = 4

Gathered(s) ==
    IF Fanned(s) THEN s.vectorResponse.texts \o s.webResponse.texts ELSE <<>>

(* C9: the fallback search is issued at most once, and once the search     *)
(* phase is over it has been issued exactly when the fan-out gathered no   *)
(* text (or there was no fan-out).                                         *)
C9_FallbackOnce ==
    \A r \in Slots :
        LET s == ask[r]
            n == Count(s.calls, "fallback")
        IN /\ n <= 1
           /\ ~s.hit /\ s.pc \in {"fallback", "streaming", "related", "returned"}
              => (n = 1 <=> Gathered(s) = <<>>)

C9_Witness ==
    \E r \in Slots :
        LET s == ask[r]
        IN /\ s.pc = "returned"
           /\ ~s.hit
           /\ Fanned(s)
           /\ s.order[1] = "vector"
           /\ s.webResponse.images # <<>>
           /\ Gathered(s) = <<>>
           /\ Count(s.calls, "fallback") = 1
           /\ s.texts # <<>>

Secure(img) == Len(img.image) > 0 /\ img.image[1] = "https"
Capped(imgs) == Len(imgs) <= IMAGE_LIMIT /\ \A i \in 1..Len(imgs) : Secure(imgs[i])

(* C10: the image search is issued, and a second images event emitted, if  *)
(* and only if the first images event is empty; the images of the second   *)
(* event, and then of the assembled CachedResult, are all https and at     *)
(* most IMAGE_LIMIT.                                                       *)
C10_Backfill ==
    \A r \in Slots :
        LET s == ask[r]
            k == Kinds(s.emitted)
        IN ~s.hit /\ Len(s.emitted) >= 2 =>
            /\ Count(s.calls, "imageSearch") = (IF s.emitted[2].images = <<>> THEN 1 ELSE 0)
            /\ Count(k, "images") = 2 => s.emitted[2].images = <<>>
            /\ s.pc \in {"related", "returned"} /\ s.emitted[2].images = <<>>
               => Count(k, "images") = 2
            /\ \A i \in 3..Len(s.emitted) : k[i] = "images" => Capped(s.emitted[i].images)
            /\ s.pc = "returned" /\ s.emitted[2].images = <<>>
               => Capped(s.cachedResult.images)

C10_Witness ==
    \E r \in Slots :
        LET s == ask[r]
        IN /\ s.pc = "returned"
           /\ ~s.hit
           /\ s.emitted[2].images = <<>>
           /\ \E i \in 3..Len(s.emitted) :
                 Kind(s.emitted[i]) = "images" /\ Len(s.emitted[i].images) = IMAGE_LIMIT
           /\ Len(s.cachedResult.images) = IMAGE_LIMIT

Rejected(s) == s.pc \in {"rejected429", "rejected400"}

(* C11: a request rejected at admission (rate limit or invalid model) has  *)
(* emitted nothing and made no capability call: no cache read, search,     *)
(* chat, cache write or usage increment is made or in flight for it; a     *)
(* request with a session is never rejected by the rate limiter, and an    *)
(* anonymous one is rejected by it only when the limiter has counted       *)
(* RateLimit requests.                                                     *)
C11_AdmissionRejection ==
    \A r \in Slots :
        LET s == ask[r]
        IN /\ Rejected(s) =>
                /\ s.emitted = <<>>
                /\ s.calls = <<>>
                /\ \A p \in pendingSet \cup pendingInc : p.id # s.id
           /\ s.pc = "rejected429" => s.userId = "" /\ rlCount >= RateLimit
           /\ s.pc = "rejected400" => ~validModel(s.model)
           /\ rlCount <= RateLimit

(* the fourth request of an anonymous caller is rejected, after one of the *)
(* first three wrote the cache                                             *)
C11_Witness ==
    /\ ask["r1"].pc = "rejected429"
    /\ ask["r1"].id = RateLimit + 1
    /\ rlCount = RateLimit
    /\ cache # <<>>

(* C12: after the caller cancelled the stream, ask() does not terminate    *)
(* with an exception: an emission on the cancelled stream makes it return. *)
C12_CancelUnwindsCleanly ==
    \A r \in Slots : ask[r].cancelled => ask[r].pc # "threw"

UpstreamFailed(response) == response.status \in {"throw", "timeout", "notok"}

(* C13: a call of SerperSearch.search ends by returning a result, never by *)
(* raising, and when the fetch threw or timed out or the status was not ok *)
(* the texts and the images of the result are both empty.                  *)
C13_SerperNeverRaises ==
    /\ serperCall.pc \in {"idle", "called", "returned"}
    /\ serperCall.pc = "returned" /\ UpstreamFailed(serperCall.response)
       => serperCall.result = EmptyResult

(* an error status whose body carries results returned empty *)
C13_Witness ==
    /\ serperCall.pc = "returned"
    /\ serperCall.response.status = "notok"
    /\ serperCall.response.json.organic # <<>>
    /\ serperCall.response.json.images # <<>>
    /\ serperCall.result = EmptyResult

(* C14: with an identity and category ALL, when the fan-out gathered at    *)
(* least one text, the first images event carries the images of the vector *)
(* search followed by the images of the web search.                        *)
C14_ImagesVectorFirst ==
    \A r \in Slots :
        LET s == ask[r]
            texts == s.vectorResponse.texts \o s.webResponse.texts
        IN ~s.hit /\ Fanned(s) /\ s.vecDone /\ s.webDone /\ Len(texts) > 0
           /\ Len(s.emitted) >= 2
           => s.emitted[2] = [images |-> s.vectorResponse.images \o s.webResponse.images]

RECURSIVE JoinTokens(_)
JoinTokens(tokens) ==
    IF tokens = <<>> THEN "" ELSE Head(tokens) \o JoinTokens(Tail(tokens))

EventsOfKind(events, kind) == SelectSeq(events, LAMBDA e : Kind(e) = kind)

(* C15: once a chat stream of the miss path has ended without failure, the *)
(* events of its tag are exactly the tokens it delivered with done=false,  *)
(* in order, and the accumulated text, and then the answer and related of  *)
(* the assembled CachedResult, is the concatenation of those tokens: the   *)
(* done=true callback emits nothing and appends nothing.                   *)
C15_DoneCallbackSilent ==
    \A r \in Slots :
        LET s == ask[r]
        IN /\ ~s.hit /\ s.ansState = "settled" /\ ~s.ansFailed
              => /\ EventsOfKind(s.emitted, "answer")
                      = [i \in 1..Len(s.ansTokens) |-> [answer |-> s.ansTokens[i]]]
                 /\ s.fullAnswer = JoinTokens(s.ansTokens)
                 /\ s.pc = "returned" => s.cachedResult.answer = JoinTokens(s.ansTokens)
           /\ ~s.hit /\ s.pc = "returned" /\ ~s.relFailed
              => /\ EventsOfKind(s.emitted, "related")
                      = [i \in 1..Len(s.relTokens) |-> [related |-> s.relTokens[i]]]
                 /\ s.cachedResult.related = JoinTokens(s.relTokens)

AnswerFailureShape(s) ==
    EventsOfKind(s.emitted, "answer")
        = [i \in 1..Len(s.ansTokens) |-> [answer |-> s.ansTokens[i]]]
          \o <<[answer |-> FallbackMessage]>>

Degraded(r) ==
    /\ DoneEmitted(r)
    /\ ask[r].imgState = "settled"
    /\ Count(ask[r].calls, "relatedChat") = 1

(* C16: when the answer chat stream fails, the answer events are the       *)
(* tokens already streamed followed by exactly one event with the fallback *)
(* message; the join with the image fetch then completes, related          *)
(* questions are generated and done is emitted.                            *)
C16_AnswerFailureDegrades ==
    /\ [](\A r \in Slots : ask[r].ansFailed => AnswerFailureShape(ask[r]))
    /\ \A r \in Slots : ask[r].ansFailed ~> Degraded(r)

(* the stream failed after its tokens, the backfill ran and a related      *)
(* token was streamed before done                                          *)
C16_Witness ==
    \E r \in Slots :
        LET s == ask[r]
        IN /\ s.ansFailed
           /\ Len(s.ansTokens) = MaxAnswerTokens
           /\ Degraded(r)
           /\ Count(Kinds(s.emitted), "images") = 2
           /\ Len(s.relTokens) > 0

Cites(prompt, sources) ==
    /\ Len(prompt.context) = Len(sources)
    /\ \A i \in 1..Len(sources) :
          prompt.context[i] = [citation |-> i, content |-> sources[i].content]

(* C17: on the miss path the citation block of the answer prompt, and of   *)
(* the related-questions prompt, has one entry per element of the sources  *)
(* event, numbered 1..N in its order and carrying its content.             *)
C17_CitationsMatchSources ==
    \A r \in Slots :
        LET s == ask[r]
        IN /\ ~s.hit /\ Count(s.calls, "answerChat") = 1
              => Cites(s.answerPrompt, s.emitted[1].sources)
           /\ ~s.hit /\ Count(s.calls, "relatedChat") = 1
              => Cites(s.relatedPrompt, s.emitted[1].sources)

(* both prompts were built from the two texts of a fallback search that    *)
(* followed an empty fan-out                                               *)
C17_Witness ==
    \E r \in Slots :
        LET s == ask[r]
        IN /\ ~s.hit
           /\ Fanned(s)
           /\ Count(s.calls, "fallback") = 1
           /\ Count(s.calls, "relatedChat") = 1
           /\ Len(s.emitted[1].sources) = 2
           /\ Len(s.answerPrompt.context) = 2
           /\ s.relatedPrompt.context[2].citation = 2

TemplateOfCategory(source) ==
    IF source = ACADEMIC THEN AcademicPrompet
    ELSE IF source = NEWS THEN NewsPrompt
    ELSE MoreQuestionsPrompt

(* C18: the template of the related-questions prompt is the academic       *)
(* template for category ACADEMIC, the news template for category NEWS and *)
(* the related-questions template for every other category.                *)
C18_RelatedTemplateByCategory ==
    \A r \in Slots :
        LET s == ask[r]
        IN ~s.hit /\ Count(s.calls, "relatedChat") = 1
           => s.relatedPrompt.prompt = TemplateOfCategory(s.source)

ExpectedIncrements(s) == IF s.userId # "" THEN 1 ELSE 0

(* C19: a request that has emitted done has attempted the usage increment  *)
(* exactly once if it has a userId and never otherwise, on the hit path    *)
(* and on the miss path; and the step that emits done leaves that attempt  *)
(* in flight: it neither waits for the counter nor for the cache.          *)
C19_OneIncrementPerRequest ==
    /\ [](\A r \in Slots :
            DoneEmitted(r)
                => Count(ask[r].calls, "incSearchCount") = ExpectedIncrements(ask[r]))
    /\ [][\A r \in Slots :
            ~DoneEmitted(r) /\ DoneEmitted(r)'
                => /\ pendingInc' = pendingInc \cup IncAttempt(ask'[r])
                   /\ usage' = usage
                   /\ cache' = cache]_vars

(* done was emitted on the miss path, the usage increment has since failed *)
(* and the cache write is still in flight                                  *)
C19_Witness ==
    \E r \in Slots :
        LET s == ask[r]
        IN /\ DoneEmitted(r)
           /\ ~s.hit
           /\ s.userId = "u1"
           /\ Count(s.calls, "incSearchCount") = 1
           /\ pendingInc = {}
           /\ usage = 0
           /\ \E p \in pendingSet : p.id = s.id

InitialVersion(key) == IF key = SeedKey THEN 1 ELSE 0

Written(key) == key \in DOMAIN cacheVer /\ cacheVer[key] > InitialVersion(key)

(* C20: a request with useCache unset never calls getCache and never       *)
(* replays; when it has returned it ran the search, the answer and the     *)
(* related questions and attempted exactly one cache write, and once that  *)
(* write is applied the entry under its key is the result of this request, *)
(* whatever was stored there before.                                       *)
C20_NoReadOneWrite ==
    \A r \in Slots :
        LET s == ask[r]
        IN ~s.useCache /\ Opened(r) =>
            /\ Count(s.calls, "getCache") = 0
            /\ ~s.hit
            /\ Count(s.calls, "setCache") <= 1
            /\ s.pc = "returned" =>
                  /\ Count(s.calls, "setCache") = 1
                  /\ Count(s.calls, "fallback") + Count(s.calls, "web") >= 1
                  /\ Count(s.calls, "answerChat") = 1
                  /\ Count(s.calls, "relatedChat") = 1
                  /\ Written(WriteKey(s)) => cache[WriteKey(s)] = s.cachedResult

(* the write of a request with useCache unset replaced the stored entry *)
C20_Witness ==
    \E r \in Slots :
        LET s == ask[r]
        IN /\ ~s.useCache
           /\ s.pc = "returned"
           /\ WriteKey(s) = SeedKey
           /\ Written(SeedKey)
           /\ cache[SeedKey] = s.cachedResult
           /\ cache[SeedKey] # SeedEntry

====
